---- MODULE Spec2Model ----
(***************************************************************************)
(* NetworkEyes plugin lifecycle manager (lifecycle_manager_old.py).        *)
(*                                                                         *)
(* State: the relational store (committed plugin and module tables, and    *)
(* the uncommitted work of every caller-supplied session), the per-user    *)
(* plugin directories, the plugin's source location, and for every         *)
(* session the operation in flight (install, delete, status), its          *)
(* position and its local values.  Every await of the source is a step;    *)
(* steps of different sessions interleave.                                 *)
(***************************************************************************)
EXTENDS Naturals, Sequences, FiniteSets, TLC

\* ------------------------------------------------------------- bounds
NumUsers == 2
NumSessions == 2

UserId(i) == "u" \o ToString(i)
Users == {UserId(i) : i \in 1..NumUsers}
Sessions == 1..NumSessions

\* --------------------------------------------------- static descriptors
\* PLUGIN_DATA['plugin_slug']
plugin_slug == "BrainDriveNetwork"
\* MODULE_DATA, by module name, in descriptor order
MODULE_DATA == <<"ComponentNetworkStatus">>
\* len(self.MODULE_DATA)
ExpectedModules == Len(MODULE_DATA)

\* _copy_plugin_files: the allow-list copied from the source location
files_to_copy == {"package.json", "README.md"}
dirs_to_copy == {"dist", "src", "public"}
\* _validate_installation: required_files
required_files == {"package.json", "plugin_metadata.json"}

VARIABLES
    plugin,          \* committed rows of table plugin
    module,          \* committed rows of table module
    tx,              \* tx[s]: the uncommitted work of session s
    fs,              \* fs[u]: the directory {base}/{u}/{plugin_slug}
    source_entries,  \* what exists at the plugin's source location
    pc,              \* pc[s]: position of the call running on session s
    op,              \* op[s]: "install" | "delete" | "status" | "none"
    user_id,         \* user_id[s]: the call's user id
    existing_check,  \* existing_check[s]: result of _check_existing_plugin
    modules_created, \* modules_created[s] (install)
    deleted_modules, \* deleted_modules[s] (delete): module_result.rowcount
    files_exist,     \* files_exist[s] (status)
    result,          \* result[s]: what the call returned (or that it raised)
    calls            \* calls[s]: the calls the operation has made so far, in order

vars == <<plugin, module, tx, fs, source_entries, pc, op, user_id,
          existing_check, modules_created, deleted_modules, files_exist,
          result, calls>>

\* ------------------------------------------------------------ ids, rows
\* plugin_id = f"{user_id}_{plugin_slug}"
PluginId(u) == u \o "_" \o plugin_slug
\* mutant: the module id leaves the plugin slug out
ModuleId_NoSlug(u, name) == u \o "_" \o name

\* module_id = f"{user_id}_{plugin_slug}_{module_data['name']}"
ModuleId(u, name) == u \o "_" \o plugin_slug \o "_" \o name

\* the row of INSERT INTO plugin (the columns the queries read)
PluginRow(u) == [id |-> PluginId(u), user_id |-> u, plugin_slug |-> plugin_slug]
\* the row of INSERT INTO module
ModuleRow(u, name) ==
    [id |-> ModuleId(u, name), plugin_id |-> PluginId(u), user_id |-> u, name |-> name]

\* ---------------------------------------------------------- filesystem
NoDir == [exists |-> FALSE, entries |-> {}, manifest |-> <<>>]
\* json.dump({... 'module_data': MODULE_DATA, 'installed_for_user': user_id ...})
Manifest(u) == <<[installed_for_user |-> u, module_data |-> MODULE_DATA]>>

\* shutil.rmtree raising: the directory stays (what is left inside it is read
\* by no operation before the next copy overwrites it)
CleanupOutcomes(env) == IF "fs" \in env THEN {"ok", "err"} ELSE {"ok"}

\* mutant: the clean-up leaves the directory in place
CleanupUserDirectory_Keeps(dir, cf) == dir

\* _cleanup_user_directory: remove the directory if present; never raises
CleanupUserDirectory(dir, cf) ==
    IF ~dir.exists THEN dir
    ELSE IF cf = "ok" THEN NoDir
    ELSE dir

\* _create_user_plugin_directory: mkdir(parents, exist_ok) + dist + assets
CreateUserPluginDirectory(dir) ==
    [dir EXCEPT !.exists = TRUE, !.entries = dir.entries \cup {"dist", "assets"}]

\* _copy_plugin_files: can the copy write into the target at all?  copy2 and
\* copytree re-create a vanished target directory only when something exists
\* at the source; otherwise open(metadata_file, 'w') raises
CopyCanWrite(dir, src) ==
    dir.exists \/ (src \cap (files_to_copy \cup dirs_to_copy)) # {}

\* mutant: the copy writes package.json whether or not the source has it
CopyPluginFiles_AlwaysPackage(dir, src, u) ==
    [exists |-> TRUE,
     entries |-> dir.entries \cup (src \cap (files_to_copy \cup dirs_to_copy))
                             \cup {"package.json", "plugin_metadata.json"},
     manifest |-> Manifest(u)]

\* _copy_plugin_files: entries absent at the source are skipped, then the
\* manifest is written
CopyPluginFiles(dir, src, u) ==
    [exists |-> TRUE,
     entries |-> dir.entries \cup (src \cap (files_to_copy \cup dirs_to_copy))
                             \cup {"plugin_metadata.json"},
     manifest |-> Manifest(u)]

\* mutant: validation does not compare the manifest's user with the caller's
ValidateInstallation_AnyUser(dir, u) ==
    IF ~dir.exists \/ (required_files \ dir.entries) # {}
    THEN "Missing required files"
    ELSE IF dir.manifest = <<>> THEN "Invalid metadata file"
    ELSE ""

\* _validate_installation: "" when valid, else the error
ValidateInstallation(dir, u) ==
    IF ~dir.exists \/ (required_files \ dir.entries) # {}
    THEN "Missing required files"
    ELSE IF dir.manifest = <<>> THEN "Invalid metadata file"
    ELSE IF dir.manifest[1].installed_for_user # u
    THEN "Metadata file has incorrect user ID"
    ELSE ""

\* --------------------------------------------------------------- store
NoTx == [ins_plugin |-> {}, ins_module |-> {}, del_plugin |-> {}, del_module |-> {}]

\* what session s reads: committed rows, less its own deletes, plus its own inserts
PluginView(s) == (plugin \ tx[s].del_plugin) \cup tx[s].ins_plugin
ModuleView(s) == (module \ tx[s].del_module) \cup tx[s].ins_module

\* a row another session has inserted or deleted and not yet committed is
\* locked: a statement of s that writes the same key waits for that session
PluginLocked(s, id) ==
    \E t \in Sessions \ {s} :
        \E r \in tx[t].ins_plugin \cup tx[t].del_plugin : r.id = id
ModuleLocked(s, id) ==
    \E t \in Sessions \ {s} :
        \E r \in tx[t].ins_module \cup tx[t].del_module : r.id = id

\* db.commit()
Commit(s) ==
    /\ plugin' = (plugin \ tx[s].del_plugin) \cup tx[s].ins_plugin
    /\ module' = (module \ tx[s].del_module) \cup tx[s].ins_module
    /\ tx' = [tx EXCEPT ![s] = NoTx]

\* db.rollback()
Rollback(s) ==
    /\ tx' = [tx EXCEPT ![s] = NoTx]
    /\ UNCHANGED <<plugin, module>>

\* ------------------------------------------------------------- results
NoCheck == [exists |-> FALSE, plugin_id |-> "", error |-> ""]
NoResult ==
    [kind |-> "none", success |-> FALSE, error |-> "", plugin_id |-> "",
     modules |-> <<>>, deleted |-> 0, exists |-> FALSE, status |-> "",
     files_exist |-> FALSE, expected_count |-> 0, actual_count |-> 0]
Failure(err) == [NoResult EXCEPT !.kind = "return", !.error = err]
\* an exception that leaves the operation
Raised(err) == [NoResult EXCEPT !.kind = "raise", !.error = err]

StoreFaults(env) == IF "store" \in env THEN {"ok", "err"} ELSE {"ok"}

\* mutant: the lookup never finds the row
CheckExistingPlugin_NeverFinds(s, f) ==
    [exists |-> FALSE, plugin_id |-> "", error |-> ""]

\* _check_existing_plugin: SELECT ... WHERE user_id AND plugin_slug; an
\* exception is caught and reported as 'exists': False
CheckExistingPlugin(s, f) ==
    IF f = "err" THEN [exists |-> FALSE, plugin_id |-> "", error |-> "StoreError"]
    ELSE LET rows == {r \in PluginView(s) :
                        r.user_id = user_id[s] /\ r.plugin_slug = plugin_slug}
         IN IF rows # {}
            THEN [exists |-> TRUE, plugin_id |-> (CHOOSE r \in rows : TRUE).id,
                  error |-> ""]
            ELSE NoCheck

TypeOK ==
    /\ plugin \subseteq {PluginRow(u) : u \in Users}
    /\ pc \in [Sessions -> {"idle", "check", "mkdir", "copy", "insert_plugin",
                            "insert_module", "validate", "commit",
                            "delete_modules", "delete_plugin", "cleanup",
                            "modules_status", "done"}]
    /\ op \in [Sessions -> {"none", "install", "delete", "status"}]

Init ==
    /\ plugin = {}
    /\ module = {}
    /\ tx = [s \in Sessions |-> NoTx]
    /\ fs = [u \in Users |-> NoDir]
    /\ source_entries \in {files_to_copy \cup dirs_to_copy,
                           (files_to_copy \cup dirs_to_copy) \ {"package.json"}}
    /\ pc = [s \in Sessions |-> "idle"]
    /\ op = [s \in Sessions |-> "none"]
    /\ user_id = [s \in Sessions |-> ""]
    /\ existing_check = [s \in Sessions |-> NoCheck]
    /\ modules_created = [s \in Sessions |-> <<>>]
    /\ deleted_modules = [s \in Sessions |-> 0]
    /\ files_exist = [s \in Sessions |-> FALSE]
    /\ result = [s \in Sessions |-> NoResult]
    /\ calls = [s \in Sessions |-> <<>>]

\* when session s may take a step: always when calls run concurrently, else
\* only while no other session has a call in flight
Scheduled(s, env) ==
    "concurrent" \in env \/ \A t \in Sessions \ {s} : pc[t] = "idle"

\* the caller invokes install_plugin / delete_plugin / get_plugin_status
\* with a user id and a session of its own.  A call that has returned hands
\* over its result and has its session closed (Return) before any later
\* call begins, so that two calls both seen at "done" ran concurrently
Call(s, env) ==
    /\ Scheduled(s, env)
    /\ pc[s] = "idle"
    /\ \A t \in Sessions : pc[t] # "done"
    /\ \E o \in {"install", "delete", "status"}, u \in Users :
        /\ op' = [op EXCEPT ![s] = o]
        /\ user_id' = [user_id EXCEPT ![s] = u]
    /\ pc' = [pc EXCEPT ![s] = "check"]
    /\ UNCHANGED <<plugin, module, tx, fs, source_entries, existing_check,
                   modules_created, deleted_modules, files_exist, result, calls>>

\* leaving the operation with a result
Finish(s, r) ==
    /\ result' = [result EXCEPT ![s] = r]
    /\ pc' = [pc EXCEPT ![s] = "done"]

Goto(s, label) ==
    /\ pc' = [pc EXCEPT ![s] = label]
    /\ UNCHANGED result

\* the operation on session s makes the calls named in entries
Log(s, entries) == calls' = [calls EXCEPT ![s] = @ \o entries]

\* _cleanup_user_directory(dir) calls shutil.rmtree when dir exists
CleanupCalls(dir) == IF dir.exists THEN <<"cleanup", "rmtree">> ELSE <<"cleanup">>

\* the handler `except Exception as e: await db.rollback(); return {...}` of
\* install_plugin and delete_plugin: the rollback may raise in turn, and that
\* exception leaves the operation
RollbackOutcomes(env) == IF "store" \in env THEN {"ok", "err"} ELSE {"ok"}
ExceptHandler(s, made, e, rf) ==
    /\ Log(s, made \o <<"rollback">>)
    /\ IF rf = "ok"
       THEN Rollback(s) /\ Finish(s, Failure(e))
       ELSE /\ UNCHANGED <<plugin, module, tx>>
            /\ Finish(s, Raised("rollback failed"))

\* ------------------------------------------------------------- install
\* install_plugin: existing_check = await self._check_existing_plugin(...)
InstallCheck(s, env) ==
    /\ Scheduled(s, env)
    /\ pc[s] = "check" /\ op[s] = "install"
    /\ \E f \in StoreFaults(env) :
        LET ec == CheckExistingPlugin(s, f) IN
        /\ existing_check' = [existing_check EXCEPT ![s] = ec]
        /\ IF ec.exists
           THEN Finish(s, [Failure("Plugin already installed for user " \o user_id[s])
                             EXCEPT !.plugin_id = ec.plugin_id])
           ELSE Goto(s, "mkdir")
    /\ Log(s, <<"check">>)
    /\ UNCHANGED <<plugin, module, tx, fs, source_entries, op, user_id,
                   modules_created, deleted_modules, files_exist>>

\* mkdir: nothing created, or plugin_dir created and a sub-directory failed
MkdirOutcomes(env) == IF "fs" \in env THEN {"ok", "err_none", "err_partial"} ELSE {"ok"}

\* mutant: the record insert follows the directory creation, the copy is skipped
InstallMkdir_SkipsCopy(s, env) ==
    /\ Scheduled(s, env)
    /\ pc[s] = "mkdir"
    /\ fs' = [fs EXCEPT ![user_id[s]] = CreateUserPluginDirectory(fs[user_id[s]])]
    /\ Goto(s, "insert_plugin")
    /\ Log(s, <<"mkdir">>)
    /\ UNCHANGED <<plugin, module, tx, source_entries, op, user_id, existing_check,
                   modules_created, deleted_modules, files_exist>>

\* install_plugin: user_plugin_dir = await self._create_user_plugin_directory(...)
InstallMkdir(s, env) ==
    /\ Scheduled(s, env)
    /\ pc[s] = "mkdir"
    /\ \E f \in MkdirOutcomes(env) :
        LET u == user_id[s] IN
        CASE f = "ok" ->
               /\ fs' = [fs EXCEPT ![u] = CreateUserPluginDirectory(fs[u])]
               /\ Goto(s, "copy")
          [] f = "err_none" ->
               /\ UNCHANGED fs
               /\ Finish(s, Failure("Failed to create user plugin directory"))
          [] OTHER ->
               /\ fs' = [fs EXCEPT ![u].exists = TRUE]
               /\ Finish(s, Failure("Failed to create user plugin directory"))
    /\ Log(s, <<"mkdir">>)
    /\ UNCHANGED <<plugin, module, tx, source_entries, op, user_id, existing_check,
                   modules_created, deleted_modules, files_exist>>

CopyFaults(env) == IF "fs" \in env THEN {"ok", "err"} ELSE {"ok"}

\* install_plugin: copy_result = await self._copy_plugin_files(...); on failure
\* the directory is cleaned up and the copy's failure returned
InstallCopy(s, env) ==
    /\ Scheduled(s, env)
    /\ pc[s] = "copy"
    /\ \E f \in CopyFaults(env), cf \in CleanupOutcomes(env) :
        LET u == user_id[s] IN
        IF f = "ok" /\ CopyCanWrite(fs[u], source_entries)
        THEN /\ fs' = [fs EXCEPT ![u] = CopyPluginFiles(fs[u], source_entries, u)]
             /\ Goto(s, "insert_plugin")
             /\ Log(s, <<"copy">>)
        ELSE /\ fs' = [fs EXCEPT ![u] = CleanupUserDirectory(fs[u], cf)]
             /\ Finish(s, Failure("IOError"))
             /\ Log(s, <<"copy">> \o CleanupCalls(fs[u]))
    /\ UNCHANGED <<plugin, module, tx, source_entries, op, user_id, existing_check,
                   modules_created, deleted_modules, files_exist>>

\* install_plugin after a failed _create_database_records: the directory is
\* cleaned up and db_result returned; the session is not rolled back
InsertFailed(s, stmt, e, cf) ==
    /\ fs' = [fs EXCEPT ![user_id[s]] = CleanupUserDirectory(fs[user_id[s]], cf)]
    /\ Finish(s, Failure(e))
    /\ Log(s, <<stmt>> \o CleanupCalls(fs[user_id[s]]))
    /\ UNCHANGED <<tx, modules_created>>

\* _create_database_records: await db.execute(plugin_stmt, ...)
InstallInsertPlugin(s, env) ==
    /\ Scheduled(s, env)
    /\ pc[s] = "insert_plugin"
    /\ ~PluginLocked(s, PluginId(user_id[s]))
    /\ \E f \in StoreFaults(env), cf \in CleanupOutcomes(env) :
        LET row == PluginRow(user_id[s]) IN
        IF f = "err" THEN InsertFailed(s, "insert_plugin", "StoreError", cf)
        ELSE IF \E r \in PluginView(s) : r.id = row.id
        THEN InsertFailed(s, "insert_plugin", "IntegrityError", cf)
        ELSE /\ Log(s, <<"insert_plugin">>)
             /\ tx' = [tx EXCEPT ![s].ins_plugin = @ \cup {row}]
             /\ modules_created' = [modules_created EXCEPT ![s] = <<>>]
             /\ Goto(s, IF ExpectedModules = 0 THEN "validate" ELSE "insert_module")
             /\ UNCHANGED fs
    /\ UNCHANGED <<plugin, module, source_entries, op, user_id, existing_check,
                   deleted_modules, files_exist>>

\* _create_database_records: one await db.execute(module_stmt, ...) of the loop
\* over MODULE_DATA
InstallInsertModule(s, env) ==
    /\ Scheduled(s, env)
    /\ pc[s] = "insert_module"
    /\ LET name == MODULE_DATA[Len(modules_created[s]) + 1]
           row == ModuleRow(user_id[s], name) IN
        /\ ~ModuleLocked(s, row.id)
        /\ \E f \in StoreFaults(env), cf \in CleanupOutcomes(env) :
            IF f = "err" THEN InsertFailed(s, "insert_module", "StoreError", cf)
            ELSE IF \E r \in ModuleView(s) : r.id = row.id
            THEN InsertFailed(s, "insert_module", "IntegrityError", cf)
            ELSE /\ Log(s, <<"insert_module">>)
                 /\ tx' = [tx EXCEPT ![s].ins_module = @ \cup {row}]
                 /\ modules_created' =
                        [modules_created EXCEPT ![s] = Append(@, row.id)]
                 /\ Goto(s, IF Len(modules_created[s]) + 1 = ExpectedModules
                            THEN "validate" ELSE "insert_module")
                 /\ UNCHANGED fs
    /\ UNCHANGED <<plugin, module, source_entries, op, user_id, existing_check,
                   deleted_modules, files_exist>>

\* install_plugin: validation = await self._validate_installation(...); when
\* invalid: await db.rollback(), clean up the directory, return the error.  A
\* rollback that raises is caught by the handler, which skips the clean-up
InstallValidate(s, env) ==
    /\ Scheduled(s, env)
    /\ pc[s] = "validate"
    /\ LET u == user_id[s]
           err == ValidateInstallation(fs[u], u) IN
        IF err = ""
        THEN /\ Goto(s, "commit")
             /\ Log(s, <<"validate">>)
             /\ UNCHANGED <<plugin, module, tx, fs>>
        ELSE \E rf \in RollbackOutcomes(env), rf2 \in RollbackOutcomes(env),
                cf \in CleanupOutcomes(env) :
                IF rf = "ok"
                THEN /\ Rollback(s)
                     /\ fs' = [fs EXCEPT ![u] = CleanupUserDirectory(fs[u], cf)]
                     /\ Finish(s, Failure(err))
                     /\ Log(s, <<"validate", "rollback">> \o CleanupCalls(fs[u]))
                ELSE /\ ExceptHandler(s, <<"validate", "rollback">>,
                                      "rollback failed", rf2)
                     /\ UNCHANGED fs
    /\ UNCHANGED <<source_entries, op, user_id, existing_check, modules_created,
                   deleted_modules, files_exist>>

CommitFaults(env) == IF "store" \in env THEN {"ok", "err"} ELSE {"ok"}

\* install_plugin: await db.commit(), then the success result; a commit that
\* raises is caught by the handler
InstallCommit(s, env) ==
    /\ Scheduled(s, env)
    /\ pc[s] = "commit" /\ op[s] = "install"
    /\ \E f \in CommitFaults(env), rf \in RollbackOutcomes(env) :
        IF f = "ok"
        THEN /\ Commit(s)
             /\ Log(s, <<"commit">>)
             /\ Finish(s, [NoResult EXCEPT !.kind = "return", !.success = TRUE,
                                           !.plugin_id = PluginId(user_id[s]),
                                           !.modules = modules_created[s]])
        ELSE ExceptHandler(s, <<"commit">>, "commit failed", rf)
    /\ UNCHANGED <<fs, source_entries, op, user_id, existing_check, modules_created,
                   deleted_modules, files_exist>>

\* -------------------------------------------------------------- delete
\* mutant: delete goes on to the record deletion whatever the check found
DeleteCheck_Proceeds(s, env) ==
    /\ Scheduled(s, env)
    /\ pc[s] = "check" /\ op[s] = "delete"
    /\ \E f \in StoreFaults(env) :
        existing_check' = [existing_check EXCEPT ![s] =
            [CheckExistingPlugin(s, f) EXCEPT !.plugin_id = PluginId(user_id[s])]]
    /\ Goto(s, "delete_modules")
    /\ Log(s, <<"check">>)
    /\ UNCHANGED <<plugin, module, tx, fs, source_entries, op, user_id,
                   modules_created, deleted_modules, files_exist>>

\* delete_plugin: existing_check = await self._check_existing_plugin(...)
DeleteCheck(s, env) ==
    /\ Scheduled(s, env)
    /\ pc[s] = "check" /\ op[s] = "delete"
    /\ \E f \in StoreFaults(env) :
        LET ec == CheckExistingPlugin(s, f) IN
        /\ existing_check' = [existing_check EXCEPT ![s] = ec]
        /\ IF ~ec.exists
           THEN Finish(s, Failure("Plugin not found for user"))
           ELSE Goto(s, "delete_modules")
    /\ Log(s, <<"check">>)
    /\ UNCHANGED <<plugin, module, tx, fs, source_entries, op, user_id,
                   modules_created, deleted_modules, files_exist>>

\* _delete_database_records: DELETE FROM module WHERE plugin_id AND user_id;
\* an exception is caught and returned as the failure of delete_plugin
DeleteModules(s, env) ==
    /\ Scheduled(s, env)
    /\ pc[s] = "delete_modules"
    /\ LET rows == {r \in ModuleView(s) : r.plugin_id = existing_check[s].plugin_id
                                          /\ r.user_id = user_id[s]} IN
        /\ \A r \in rows : ~ModuleLocked(s, r.id)
        /\ \E f \in StoreFaults(env) :
            IF f = "err"
            THEN /\ Finish(s, Failure("StoreError"))
                 /\ UNCHANGED <<tx, deleted_modules>>
            ELSE /\ tx' = [tx EXCEPT ![s].del_module = @ \cup (rows \cap module),
                                     ![s].ins_module = @ \ rows]
                 /\ deleted_modules' = [deleted_modules EXCEPT ![s] = Cardinality(rows)]
                 /\ Goto(s, "delete_plugin")
    /\ Log(s, <<"delete_modules">>)
    /\ UNCHANGED <<plugin, module, fs, source_entries, op, user_id, existing_check,
                   modules_created, files_exist>>

\* mutant: delete removes the directory also when the record deletion failed
DeletePlugin_CleansOnFailure(s, env) ==
    /\ Scheduled(s, env)
    /\ pc[s] = "delete_plugin"
    /\ LET rows == {r \in PluginView(s) : r.id = existing_check[s].plugin_id
                                          /\ r.user_id = user_id[s]} IN
        /\ \A r \in rows : ~PluginLocked(s, r.id)
        /\ \E f \in StoreFaults(env) :
            IF f = "err" \/ rows = {}
            THEN /\ Finish(s, Failure(IF f = "err" THEN "StoreError"
                                      ELSE "Plugin not found or not owned by user"))
                 /\ fs' = [fs EXCEPT ![user_id[s]] = NoDir]
                 /\ UNCHANGED tx
            ELSE /\ tx' = [tx EXCEPT ![s].del_plugin = @ \cup (rows \cap plugin),
                                     ![s].ins_plugin = @ \ rows]
                 /\ Goto(s, "cleanup")
                 /\ UNCHANGED fs
    /\ Log(s, <<"delete_plugin">>)
    /\ UNCHANGED <<plugin, module, source_entries, op, user_id, existing_check,
                   modules_created, deleted_modules, files_exist>>

\* _delete_database_records: DELETE FROM plugin WHERE id AND user_id; zero rows
\* affected is the failure 'Plugin not found or not owned by user'.  A failure
\* is returned by delete_plugin as it is, without a rollback
DeletePlugin(s, env) ==
    /\ Scheduled(s, env)
    /\ pc[s] = "delete_plugin"
    /\ LET rows == {r \in PluginView(s) : r.id = existing_check[s].plugin_id
                                          /\ r.user_id = user_id[s]} IN
        /\ \A r \in rows : ~PluginLocked(s, r.id)
        /\ \E f \in StoreFaults(env) :
            IF f = "err"
            THEN /\ Finish(s, Failure("StoreError"))
                 /\ UNCHANGED tx
            ELSE IF rows = {}
            THEN /\ Finish(s, Failure("Plugin not found or not owned by user"))
                 /\ UNCHANGED tx
            ELSE /\ tx' = [tx EXCEPT ![s].del_plugin = @ \cup (rows \cap plugin),
                                     ![s].ins_plugin = @ \ rows]
                 /\ Goto(s, "cleanup")
    /\ Log(s, <<"delete_plugin">>)
    /\ UNCHANGED <<plugin, module, fs, source_entries, op, user_id, existing_check,
                   modules_created, deleted_modules, files_exist>>

\* mutant: a failing directory removal ends the delete with its exception
DeleteCleanup_Raises(s, env) ==
    /\ Scheduled(s, env)
    /\ pc[s] = "cleanup"
    /\ \E cf \in CleanupOutcomes(env) :
        /\ fs' = [fs EXCEPT ![user_id[s]] = CleanupUserDirectory(fs[user_id[s]], cf)]
        /\ IF cf = "err" /\ fs[user_id[s]].exists
           THEN Finish(s, Raised("rmtree failed"))
           ELSE Goto(s, "commit")
    /\ Log(s, CleanupCalls(fs[user_id[s]]))
    /\ UNCHANGED <<plugin, module, tx, source_entries, op, user_id, existing_check,
                   modules_created, deleted_modules, files_exist>>

\* mutant: delete removes the plugin directories under the base directory,
\* not the one of its user
DeleteCleanup_AllUsers(s, env) ==
    /\ Scheduled(s, env)
    /\ pc[s] = "cleanup"
    /\ fs' = [u \in Users |-> NoDir]
    /\ Goto(s, "commit")
    /\ Log(s, CleanupCalls(fs[user_id[s]]))
    /\ UNCHANGED <<plugin, module, tx, source_entries, op, user_id, existing_check,
                   modules_created, deleted_modules, files_exist>>

\* delete_plugin: await self._cleanup_user_directory(user_plugin_dir)
DeleteCleanup(s, env) ==
    /\ Scheduled(s, env)
    /\ pc[s] = "cleanup"
    /\ \E cf \in CleanupOutcomes(env) :
        fs' = [fs EXCEPT ![user_id[s]] = CleanupUserDirectory(fs[user_id[s]], cf)]
    /\ Goto(s, "commit")
    /\ Log(s, CleanupCalls(fs[user_id[s]]))
    /\ UNCHANGED <<plugin, module, tx, source_entries, op, user_id, existing_check,
                   modules_created, deleted_modules, files_exist>>

\* delete_plugin: await db.commit(), then the success result; a commit that
\* raises is caught by the handler
DeleteCommit(s, env) ==
    /\ Scheduled(s, env)
    /\ pc[s] = "commit" /\ op[s] = "delete"
    /\ \E f \in CommitFaults(env), rf \in RollbackOutcomes(env) :
        IF f = "ok"
        THEN /\ Commit(s)
             /\ Log(s, <<"commit">>)
             /\ Finish(s, [NoResult EXCEPT !.kind = "return", !.success = TRUE,
                                           !.plugin_id = existing_check[s].plugin_id,
                                           !.deleted = deleted_modules[s]])
        ELSE ExceptHandler(s, <<"commit">>, "commit failed", rf)
    /\ UNCHANGED <<fs, source_entries, op, user_id, existing_check, modules_created,
                   deleted_modules, files_exist>>

\* -------------------------------------------------------------- status
\* mutant: the module state is tested before the directory
Classify_ModulesFirst(files, all_loaded) ==
    IF files /\ all_loaded THEN "healthy"
    ELSE IF ~all_loaded THEN "modules_corrupted"
    ELSE IF ~files THEN "files_missing"
    ELSE "unknown"

\* mutant: each verdict requires the other component to be sound
Classify_Exclusive(files, all_loaded) ==
    IF files /\ all_loaded THEN "healthy"
    ELSE IF ~files /\ all_loaded THEN "files_missing"
    ELSE IF files /\ ~all_loaded THEN "modules_corrupted"
    ELSE "unknown"

\* get_plugin_status, lines 190-197
Classify(files, all_loaded) ==
    IF files /\ all_loaded THEN "healthy"
    ELSE IF ~files THEN "files_missing"
    ELSE IF ~all_loaded THEN "modules_corrupted"
    ELSE "unknown"

\* mutant: the module rows are selected by the user id in place of the plugin id
CheckModulesStatus_WrongKey(s, f) ==
    LET rows == {r \in ModuleView(s) : r.plugin_id = user_id[s]}
    IN [expected_count |-> ExpectedModules,
        actual_count |-> Cardinality(rows),
        all_loaded |-> Cardinality(rows) = ExpectedModules]

\* _check_modules_status: SELECT ... FROM module WHERE plugin_id AND user_id;
\* an exception is caught and reported as all_loaded False with zero counts
CheckModulesStatus(s, f) ==
    IF f = "err"
    THEN [expected_count |-> 0, actual_count |-> 0, all_loaded |-> FALSE]
    ELSE LET rows == {r \in ModuleView(s) :
                        r.plugin_id = existing_check[s].plugin_id
                        /\ r.user_id = user_id[s]}
         IN [expected_count |-> ExpectedModules,
             actual_count |-> Cardinality(rows),
             all_loaded |-> Cardinality(rows) = ExpectedModules]

\* user_plugin_dir.exists() raising (an OSError other than "not found")
ProbeFaults(env) == IF "fs" \in env THEN {"ok", "err"} ELSE {"ok"}

\* get_plugin_status: the existence check, then files_exist = user_plugin_dir.exists()
StatusCheck(s, env) ==
    /\ Scheduled(s, env)
    /\ pc[s] = "check" /\ op[s] = "status"
    /\ \E f \in StoreFaults(env), pf \in ProbeFaults(env) :
        LET ec == CheckExistingPlugin(s, f) IN
        /\ existing_check' = [existing_check EXCEPT ![s] = ec]
        /\ Log(s, IF ec.exists THEN <<"check", "probe">> ELSE <<"check">>)
        /\ IF ~ec.exists
           THEN /\ Finish(s, [NoResult EXCEPT !.kind = "return",
                                              !.status = "not_installed"])
                /\ UNCHANGED files_exist
           ELSE IF pf = "err"
           THEN /\ Finish(s, [NoResult EXCEPT !.kind = "return", !.status = "error",
                                              !.error = "OSError"])
                /\ UNCHANGED files_exist
           ELSE /\ files_exist' = [files_exist EXCEPT ![s] = fs[user_id[s]].exists]
                /\ Goto(s, "modules_status")
    /\ UNCHANGED <<plugin, module, tx, fs, source_entries, op, user_id,
                   modules_created, deleted_modules>>

\* mutant: the status check commits the session before it returns
StatusModules_Commits(s, env) ==
    /\ Scheduled(s, env)
    /\ pc[s] = "modules_status"
    /\ \E f \in StoreFaults(env) :
        LET ms == CheckModulesStatus(s, f) IN
        Finish(s, [NoResult EXCEPT !.kind = "return", !.exists = TRUE,
                                   !.status = Classify(files_exist[s], ms.all_loaded),
                                   !.plugin_id = existing_check[s].plugin_id,
                                   !.files_exist = files_exist[s],
                                   !.expected_count = ms.expected_count,
                                   !.actual_count = ms.actual_count])
    /\ Log(s, <<"modules_status", "commit">>)
    /\ Commit(s)
    /\ UNCHANGED <<fs, source_entries, op, user_id,
                   existing_check, modules_created, deleted_modules, files_exist>>

\* get_plugin_status: modules_status = await self._check_modules_status(...),
\* the classification and the result
StatusModules(s, env) ==
    /\ Scheduled(s, env)
    /\ pc[s] = "modules_status"
    /\ \E f \in StoreFaults(env) :
        LET ms == CheckModulesStatus(s, f) IN
        Finish(s, [NoResult EXCEPT !.kind = "return", !.exists = TRUE,
                                   !.status = Classify(files_exist[s], ms.all_loaded),
                                   !.plugin_id = existing_check[s].plugin_id,
                                   !.files_exist = files_exist[s],
                                   !.expected_count = ms.expected_count,
                                   !.actual_count = ms.actual_count])
    /\ Log(s, <<"modules_status">>)
    /\ UNCHANGED <<plugin, module, tx, fs, source_entries, op, user_id,
                   existing_check, modules_created, deleted_modules, files_exist>>

\* the caller takes the result and closes its session, which discards
\* whatever the operation left uncommitted
Return(s, env) ==
    /\ Scheduled(s, env)
    /\ pc[s] = "done"
    /\ tx' = [tx EXCEPT ![s] = NoTx]
    /\ pc' = [pc EXCEPT ![s] = "idle"]
    /\ op' = [op EXCEPT ![s] = "none"]
    /\ user_id' = [user_id EXCEPT ![s] = ""]
    /\ existing_check' = [existing_check EXCEPT ![s] = NoCheck]
    /\ modules_created' = [modules_created EXCEPT ![s] = <<>>]
    /\ deleted_modules' = [deleted_modules EXCEPT ![s] = 0]
    /\ files_exist' = [files_exist EXCEPT ![s] = FALSE]
    /\ result' = [result EXCEPT ![s] = NoResult]
    /\ calls' = [calls EXCEPT ![s] = <<>>]
    /\ UNCHANGED <<plugin, module, fs, source_entries>>

\* one step of session s.  env: what the environment may do: "concurrent":
\* calls overlap; "store": a statement, commit or rollback may raise; "fs": a
\* filesystem call may raise
Step(s, env) ==
    \/ Call(s, env)
    \/ InstallCheck(s, env)
    \/ InstallMkdir(s, env)
    \/ InstallCopy(s, env)
    \/ InstallInsertPlugin(s, env)
    \/ InstallInsertModule(s, env)
    \/ InstallValidate(s, env)
    \/ InstallCommit(s, env)
    \/ DeleteCheck(s, env)
    \/ DeleteModules(s, env)
    \/ DeletePlugin(s, env)
    \/ DeleteCleanup(s, env)
    \/ DeleteCommit(s, env)
    \/ StatusCheck(s, env)
    \/ StatusModules(s, env)
    \/ Return(s, env)

\* concurrent calls; store and filesystem calls may fail
Next == \E s \in Sessions : Step(s, {"concurrent", "store", "fs"})
Spec == Init /\ [][Next]_vars

\* concurrent calls; store calls may fail, filesystem calls succeed
NextStore == \E s \in Sessions : Step(s, {"concurrent", "store"})
SpecStore == Init /\ [][NextStore]_vars

\* concurrent calls, every store and filesystem call succeeding
NextConc == \E s \in Sessions : Step(s, {"concurrent"})
SpecConc == Init /\ [][NextConc]_vars

\* user_plugin_dir.exists() and the SELECT on module read state that the
\* manager does not own alone: the host can remove a user's plugin directory
TamperDirectory ==
    /\ \E u \in Users :
        /\ fs[u].exists
        /\ fs' = [fs EXCEPT ![u] = NoDir]
    /\ UNCHANGED <<plugin, module, tx, source_entries, pc, op, user_id,
                   existing_check, modules_created, deleted_modules,
                   files_exist, result, calls>>

\* ... or delete a committed module row that no session is writing
TamperModule ==
    /\ \E r \in module :
        /\ \A s \in Sessions : ~ModuleLocked(s, r.id) /\ r \notin tx[s].del_module
        /\ module' = module \ {r}
    /\ UNCHANGED <<plugin, tx, fs, source_entries, pc, op, user_id,
                   existing_check, modules_created, deleted_modules,
                   files_exist, result, calls>>

\* ... or delete a committed plugin row that no session is writing (the
\* schema of the statements has no cascade to the module rows)
TamperPlugin ==
    /\ \E r \in plugin :
        /\ \A s \in Sessions : ~PluginLocked(s, r.id) /\ r \notin tx[s].del_plugin
        /\ plugin' = plugin \ {r}
    /\ UNCHANGED <<module, tx, fs, source_entries, pc, op, user_id,
                   existing_check, modules_created, deleted_modules,
                   files_exist, result, calls>>

\* concurrent calls with every store and filesystem call succeeding, and
\* the directories and rows tampered with from outside
NextTamper ==
    \/ \E s \in Sessions : Step(s, {"concurrent"})
    \/ TamperDirectory
    \/ TamperModule
    \/ TamperPlugin
SpecTamper == Init /\ [][NextTamper]_vars

\* one call at a time; store and filesystem calls may fail, and the
\* directories and rows are tampered with from outside
NextTamperFaults ==
    \/ \E s \in Sessions : Step(s, {"store", "fs"})
    \/ TamperDirectory
    \/ TamperModule
    \/ TamperPlugin
SpecTamperFaults == Init /\ [][NextTamperFaults]_vars

\* one call at a time, every store and filesystem call succeeding
NextSeq == \E s \in Sessions : Step(s, {})
SpecSeq == Init /\ [][NextSeq]_vars

\* ---------------------------------------------------------------- claims
\* committed rows of user u
PluginRows(u) == {r \in plugin : r.user_id = u}
ModuleRows(u) == {r \in module : r.user_id = u}
\* session s completes the step that returns from its call
Returns(s) == pc[s] # "done" /\ pc'[s] = "done"
\* the installed directory as validation accepts it
DirIntact(u) == ValidateInstallation(fs[u], u) = ""

\* C1: with every step succeeding and package.json present at the source, an
\* install(U) that finds no plugin record for U returns success, with U's
\* plugin row, N module rows and directory in place; an install(U) that
\* finds a plugin record returns, in that one step, the failure "Plugin
\* already installed for user U" carrying the existing plugin id, and leaves
\* every directory, both tables and the session as they were.
C1_InstallThenConflict ==
    [][\A s \in Sessions :
        LET u == user_id[s] IN
        op[s] = "install" =>
            /\ (pc[s] = "check" /\ pc'[s] # "check" /\ PluginRows(u) = {})
                    => pc'[s] = "mkdir"
            /\ (Returns(s) /\ pc[s] # "check" /\ "package.json" \in source_entries)
                    => /\ result'[s].kind = "return" /\ result'[s].success
                       /\ result'[s].plugin_id = PluginId(u)
                       /\ PluginRows(u)' = {PluginRow(u)}
                       /\ Cardinality(ModuleRows(u)') = ExpectedModules
                       /\ DirIntact(u)'
            /\ (pc[s] = "check" /\ pc'[s] # "check" /\ PluginRows(u) # {})
                    => /\ pc'[s] = "done"
                       /\ result'[s].kind = "return" /\ ~result'[s].success
                       /\ result'[s].error = "Plugin already installed for user " \o u
                       /\ result'[s].plugin_id = PluginId(u)
                       /\ UNCHANGED <<plugin, module, tx, fs>>]_vars

\* C1 witness: a second install(U) has returned the conflict for an installed U
C1_Witness ==
    \E s \in Sessions :
        /\ pc[s] = "done" /\ op[s] = "install"
        /\ existing_check[s].exists
        /\ result[s].error = "Plugin already installed for user " \o user_id[s]
        /\ PluginRow(user_id[s]) \in plugin

\* C2: with every step succeeding, a delete(U) that finds U installed returns
\* success and leaves zero plugin rows, zero module rows and no plugin
\* directory for U; it reports the N module rows it deleted.
C2_InstallDeleteRoundTrip ==
    \A s \in Sessions :
        (pc[s] = "done" /\ op[s] = "delete") =>
            /\ result[s].success <=> existing_check[s].exists
            /\ result[s].success =>
                /\ PluginRows(user_id[s]) = {}
                /\ ModuleRows(user_id[s]) = {}
                /\ ~fs[user_id[s]].exists
                /\ result[s].deleted = ExpectedModules

\* C2 witness: a delete(U) of an installed U has returned success
C2_Witness ==
    \E s \in Sessions :
        /\ pc[s] = "done" /\ op[s] = "delete"
        /\ result[s].success /\ result[s].plugin_id = PluginId(user_id[s])
        /\ fs[user_id[s]] = NoDir

\* C3: when two install(U) calls for the same U have run concurrently and
\* both found no plugin record for U (package.json present, every store and
\* filesystem call succeeding apart from the store's uniqueness check):
\* exactly one has returned success and the other a failure, and exactly one
\* plugin row, N module rows and one intact directory exist for U.
C3_ConcurrentInstall ==
    \A s, t \in Sessions :
        (/\ s # t
         /\ pc[s] = "done" /\ pc[t] = "done"
         /\ op[s] = "install" /\ op[t] = "install"
         /\ user_id[s] = user_id[t]
         /\ ~existing_check[s].exists /\ ~existing_check[t].exists
         /\ "package.json" \in source_entries)
        => /\ result[s].success # result[t].success
           /\ PluginRows(user_id[s]) = {PluginRow(user_id[s])}
           /\ Cardinality(ModuleRows(user_id[s])) = ExpectedModules
           /\ DirIntact(user_id[s])

\* C4: when the record insert step of install(U) fails after the plugin row
\* was inserted and before all module rows were, install returns with the
\* transaction rolled back (nothing pending in the session, zero plugin rows
\* and zero module rows for U) and U's plugin directory absent.
C4_PartialInsertRolledBack ==
    [][\A s \in Sessions :
        (pc[s] = "insert_module" /\ Returns(s))
            => /\ tx'[s] = NoTx
               /\ PluginRows(user_id[s])' = {}
               /\ ModuleRows(user_id[s])' = {}
               /\ ~fs'[user_id[s]].exists]_vars

\* C5: whenever no call is in flight, every user U is consistent: a
\* committed plugin row for U exists iff U's plugin directory exists iff
\* exactly N module rows exist for U.
C5_MutuallyConsistent ==
    (\A s \in Sessions : pc[s] = "idle") =>
        \A u \in Users :
            /\ (PluginRows(u) # {}) <=> fs[u].exists
            /\ fs[u].exists <=> (Cardinality(ModuleRows(u)) = ExpectedModules)

\* C6: a delete(U) whose session sees no plugin record for U returns, in
\* that one step, the failure "Plugin not found for user", and changes no
\* directory, no table and nothing in the session (no delete statement, no
\* commit).
C6_DeleteNotFoundNoEffect ==
    [][\A s \in Sessions :
        (/\ op[s] = "delete" /\ pc[s] = "check" /\ pc'[s] # "check"
         /\ \A r \in PluginView(s) : r.user_id # user_id[s])
            => /\ pc'[s] = "done"
               /\ result'[s] = Failure("Plugin not found for user")
               /\ UNCHANGED <<plugin, module, tx, fs>>]_vars

\* C6 witness: a delete(U) of a user without plugin record has returned "not found"
C6_Witness ==
    \E s \in Sessions :
        /\ pc[s] = "done" /\ op[s] = "delete"
        /\ existing_check[s] = NoCheck
        /\ PluginRows(user_id[s]) = {}
        /\ result[s].error = "Plugin not found for user"

\* C7: whenever install(U) returns a failure result after having started
\* side effects (it got past the existence check), U's plugin directory has
\* been removed and the transaction rolled back.
C7_FailureCompensated ==
    [][\A s \in Sessions :
        (/\ op[s] = "install" /\ Returns(s) /\ pc[s] # "check"
         /\ result'[s].kind = "return" /\ ~result'[s].success)
            => /\ ~fs'[user_id[s]].exists
               /\ tx'[s] = NoTx]_vars

\* C8: with calls run one at a time and every step succeeding, status(U)
\* returns not_installed when no plugin record exists for U, and healthy
\* when U's plugin record exists, which is from a successful install(U) on.
C8_StatusBeforeAndAfterInstall ==
    \A s \in Sessions :
        (pc[s] = "done" /\ op[s] = "status") =>
            /\ PluginRows(user_id[s]) = {}
                => (result[s].status = "not_installed" /\ ~result[s].exists)
            /\ PluginRows(user_id[s]) # {}
                => (result[s].status = "healthy" /\ result[s].exists)

\* C8 witness: status(U) has returned healthy for an installed U
C8_Witness ==
    \E s \in Sessions :
        /\ pc[s] = "done" /\ op[s] = "status"
        /\ PluginRow(user_id[s]) \in plugin
        /\ result[s].status = "healthy"

\* the module rows of U's plugin as session s reads them
ModulesSeen(s) ==
    {r \in ModuleView(s) : r.plugin_id = PluginId(user_id[s]) /\ r.user_id = user_id[s]}

\* C9: when status(U) finds a plugin record, it probes the directory, and,
\* the module lookup answering, classifies: healthy iff the directory was
\* there and the number of module rows is N; files_missing whenever the
\* directory was absent, whatever the module rows; modules_corrupted iff the
\* directory was there and the number of module rows differs from N.
C9_StatusClassification ==
    [][\A s \in Sessions :
        /\ (op[s] = "status" /\ pc[s] = "check" /\ pc'[s] = "modules_status")
            => files_exist'[s] = fs[user_id[s]].exists
        /\ (pc[s] = "modules_status" /\ Returns(s))
            => LET dir == files_exist[s]
                   n == Cardinality(ModulesSeen(s))
                   st == result'[s].status
               IN /\ st = "healthy" <=> (dir /\ n = ExpectedModules)
                  /\ ~dir => st = "files_missing"
                  /\ st = "modules_corrupted" <=> (dir /\ n # ExpectedModules)]_vars

\* C9 witness: status(U) has reported modules_corrupted from a module lookup
\* that answered
C9_Witness ==
    \E s \in Sessions :
        /\ pc[s] = "done" /\ op[s] = "status"
        /\ result[s].status = "modules_corrupted"
        /\ result[s].expected_count = ExpectedModules
        /\ result[s].actual_count # ExpectedModules

\* C10: a status(U) whose lookup of the plugin record or of the module rows
\* failed returns status 'error' with the error detail (and does not raise).
C10_LookupErrorReported ==
    \A s \in Sessions :
        (/\ pc[s] = "done" /\ op[s] = "status"
         /\ \/ existing_check[s].error # ""
            \/ (result[s].exists /\ result[s].expected_count # ExpectedModules))
        => /\ result[s].kind = "return"
           /\ result[s].status = "error"
           /\ result[s].error # ""

\* C11: every step of status(U), on every path (not installed, classified,
\* probe error), leaves both tables, every session's pending work and every
\* directory unchanged, and the calls status makes are the existence lookup,
\* the directory probe and the module lookup only: no commit, no rollback,
\* no write.
C11_StatusReadOnly ==
    [][\A s \in Sessions :
        op[s] = "status" =>
            /\ (pc'[s] # pc[s]) => UNCHANGED <<plugin, module, tx, fs>>
            /\ \A i \in 1..Len(calls'[s]) :
                    calls'[s][i] \in {"check", "probe", "modules_status"}]_vars

\* C11 witness: status(U) of an installed U has returned through its error path
C11_Witness ==
    \E s \in Sessions :
        /\ pc[s] = "done" /\ op[s] = "status"
        /\ result[s].status = "error"
        /\ calls[s] = <<"check", "probe">>
        /\ PluginRows(user_id[s]) # {}

\* C12: every call of install, delete or status that has ended has returned
\* a result record: no exception has left the operation, whichever store
\* statement, commit, rollback or filesystem step failed inside it.
C12_NoUncaughtException ==
    \A s \in Sessions :
        pc[s] = "done" => result[s].kind = "return"

\* C13: when the plugin row delete of delete(U) affects zero rows, delete
\* returns the failure 'Plugin not found or not owned by user' with the
\* transaction rolled back: nothing is pending in the session, so that the
\* module deletions it issued cannot be committed later.
C13_ZeroRowsRolledBack ==
    [][\A s \in Sessions :
        (pc[s] = "delete_plugin" /\ Returns(s)
         /\ result'[s].error = "Plugin not found or not owned by user")
            => /\ result'[s].kind = "return" /\ ~result'[s].success
               /\ tx'[s] = NoTx]_vars

\* C14: when the record deletion step of delete(U) reports failure (zero
\* plugin rows affected, or a store error in either DELETE), delete returns
\* that failure in the same step, no directory is changed, and the call has
\* not run the directory removal.
C14_DeleteFailureKeepsDirectory ==
    [][\A s \in Sessions :
        (pc[s] \in {"delete_modules", "delete_plugin"} /\ Returns(s))
            => /\ result'[s].kind = "return" /\ ~result'[s].success
               /\ result'[s].error \in {"StoreError",
                                        "Plugin not found or not owned by user"}
               /\ fs' = fs
               /\ \A i \in 1..Len(calls'[s]) :
                      calls'[s][i] \notin {"cleanup", "rmtree"}]_vars

\* C14 witness: delete(U) has returned the failure of its record deletion
\* and U's directory is still there
C14_Witness ==
    \E s \in Sessions :
        /\ pc[s] = "done" /\ op[s] = "delete"
        /\ existing_check[s].exists
        /\ result[s].error \in {"StoreError", "Plugin not found or not owned by user"}
        /\ calls[s][Len(calls[s])] \in {"delete_modules", "delete_plugin"}
        /\ fs[user_id[s]].exists

\* the steps of a complete install, in order
InstallOrder ==
    <<"check", "mkdir", "copy", "insert_plugin">>
        \o [i \in 1..ExpectedModules |-> "insert_module"]
        \o <<"validate", "commit">>

\* C15: the calls of install(U) are at every moment a prefix of check,
\* create directory, copy, insert plugin row, insert module rows, validate,
\* commit, followed by compensation (rollback, directory removal) only; a
\* step is entered only when the one before it succeeded; so commit is
\* issued at most once, as the last step, after validation accepted the
\* directory, and never after a failure.
C15_InstallStepOrder ==
    [][\A s \in Sessions :
        op[s] = "install" =>
            LET u == user_id[s]
                c == calls'[s]
            IN /\ \E k \in 0..Len(c) :
                    /\ k <= Len(InstallOrder)
                    /\ SubSeq(c, 1, k) = SubSeq(InstallOrder, 1, k)
                    /\ \A i \in (k + 1)..Len(c) :
                          c[i] \in {"rollback", "cleanup", "rmtree"}
               /\ (pc[s] = "check" /\ pc'[s] = "mkdir") => ~existing_check'[s].exists
               /\ (pc[s] = "mkdir" /\ pc'[s] = "copy") => fs'[u].exists
               /\ (pc[s] = "copy" /\ pc'[s] = "insert_plugin")
                    => "plugin_metadata.json" \in fs'[u].entries
               /\ (pc[s] = "insert_plugin" /\ pc'[s] \in {"insert_module", "validate"})
                    => \E r \in tx'[s].ins_plugin : r.user_id = u
               /\ (pc[s] = "insert_module" /\ pc'[s] = "validate")
                    => Cardinality(tx'[s].ins_module) = ExpectedModules
               /\ (pc[s] = "validate" /\ pc'[s] = "commit")
                    => /\ required_files \subseteq fs[u].entries
                       /\ fs[u].manifest # <<>>
                       /\ fs[u].manifest[1].installed_for_user = u
               /\ (pc'[s] = "done" /\ result'[s].success)
                    => c = InstallOrder]_vars

\* C15 witness: an install has returned success after the complete sequence
C15_Witness ==
    \E s \in Sessions :
        /\ pc[s] = "done" /\ op[s] = "install"
        /\ result[s].success
        /\ calls[s] = InstallOrder
        /\ PluginRow(user_id[s]) \in plugin

\* C16: a delete(U) that has returned failure has left U's directory and
\* U's committed rows as they were before the call: it has committed
\* nothing and has not removed the directory (shutil.rmtree, which succeeds
\* whenever no filesystem fault is injected, has not been called by it).
C16_DeleteAllOrNothing ==
    \A s \in Sessions :
        (/\ pc[s] = "done" /\ op[s] = "delete"
         /\ result[s].kind = "return" /\ ~result[s].success)
        => /\ \A i \in 1..Len(calls[s]) : calls[s][i] # "rmtree"
           /\ tx[s].del_plugin \subseteq plugin
           /\ tx[s].del_module \subseteq module

\* C17: the step in which install(U) returns success returns the plugin id
\* "U_BrainDriveNetwork" and the module ids "U_BrainDriveNetwork_<name>",
\* one per descriptor of MODULE_DATA in descriptor order; after that step
\* the committed rows of U are exactly the rows with these ids, and every
\* module row references that plugin id and user U.
C17_InstallReturnsCommittedIds ==
    [][\A s \in Sessions :
        (op[s] = "install" /\ Returns(s) /\ result'[s].success)
            => LET u == user_id[s]
                   r == result'[s]
               IN /\ r.plugin_id = u \o "_BrainDriveNetwork"
                  /\ r.modules = [i \in 1..Len(MODULE_DATA) |->
                                    u \o "_BrainDriveNetwork_" \o MODULE_DATA[i]]
                  /\ {p.id : p \in PluginRows(u)'} = {r.plugin_id}
                  /\ {m.id : m \in ModuleRows(u)'} =
                        {r.modules[i] : i \in 1..Len(r.modules)}
                  /\ \A m \in ModuleRows(u)' :
                        m.plugin_id = r.plugin_id /\ m.user_id = u]_vars

\* C17 witness: an install has returned success with N module ids and its
\* rows are committed
C17_Witness ==
    \E s \in Sessions :
        /\ pc[s] = "done" /\ op[s] = "install" /\ result[s].success
        /\ Len(result[s].modules) = Len(MODULE_DATA)
        /\ Cardinality(ModuleRows(user_id[s])) = Len(MODULE_DATA)
        /\ PluginRows(user_id[s]) # {}

\* C18: the manifest the copy step of install(U) has written reads back with
\* installed_for_user = U and a module list of length N; validation enters
\* the commit only with such a manifest; and for every user V, validation
\* for V accepts a directory only if its manifest's installed_for_user is V
\* (a directory written for U is rejected for every V # U).
C18_ManifestRoundTrip ==
    [][/\ \A s \in Sessions :
            LET u == user_id[s] IN
            /\ (pc[s] = "copy" /\ pc'[s] = "insert_plugin")
                => /\ fs'[u].manifest # <<>>
                   /\ fs'[u].manifest[1].installed_for_user = u
                   /\ Len(fs'[u].manifest[1].module_data) = Len(MODULE_DATA)
            /\ (pc[s] = "validate" /\ pc'[s] = "commit")
                => /\ fs[u].manifest # <<>>
                   /\ fs[u].manifest[1].installed_for_user = u
       /\ \A u, v \in Users :
            ValidateInstallation(fs'[u], v) = ""
                => /\ fs'[u].manifest # <<>>
                   /\ fs'[u].manifest[1].installed_for_user = v]_vars

\* C18 witness: validation has accepted the directory written for U, which
\* validation for another user rejects for its user id
C18_Witness ==
    \E s \in Sessions :
        /\ pc[s] = "commit" /\ op[s] = "install"
        /\ fs[user_id[s]].manifest # <<>>
        /\ fs[user_id[s]].manifest[1].installed_for_user = user_id[s]
        /\ \E v \in Users \ {user_id[s]} :
            ValidateInstallation(fs[user_id[s]], v) = "Metadata file has incorrect user ID"

\* C19: the directory removal never ends the operation that called it with
\* an exception: delete(U) goes on to its commit whether or not the removal
\* succeeded, and an install that removes the directory on a failure path
\* returns that step's failure; the removal leaves an absent directory as it
\* is and, with the same outcome of shutil.rmtree, applying it twice gives
\* what applying it once gives.
C19_CleanupNeverRaises ==
    [][/\ \A s \in Sessions :
            /\ (pc[s] = "cleanup" /\ pc'[s] # pc[s])
                => /\ pc'[s] = "commit"
                   /\ result'[s] = result[s]
                   /\ fs'[user_id[s]] \in {fs[user_id[s]], NoDir}
            /\ (Len(calls'[s]) > Len(calls[s])
                 /\ \E i \in (Len(calls[s]) + 1)..Len(calls'[s]) : calls'[s][i] = "cleanup")
                => result'[s].kind # "raise"
       /\ \A u \in Users, cf \in {"ok", "err"} :
            LET d == fs'[u] IN
            /\ ~d.exists => CleanupUserDirectory(d, cf) = d
            /\ CleanupUserDirectory(CleanupUserDirectory(d, cf), cf)
                    = CleanupUserDirectory(d, cf)]_vars

\* C19 witness: the removal called by delete(U) has failed, the directory is
\* still there, and delete is on its way to the commit
C19_Witness ==
    \E s \in Sessions :
        /\ pc[s] = "commit" /\ op[s] = "delete"
        /\ calls[s][Len(calls[s])] = "rmtree"
        /\ fs[user_id[s]].exists
        /\ \A t \in Sessions \ {s} : pc[t] = "idle"

\* C20: a step in which install(U) returns without success, taken while an
\* installation of U is committed (its plugin row committed, its directory
\* valid), leaves U's directory as it is.
C20_FailedInstallKeepsInstalled ==
    [][\A s \in Sessions :
        (/\ op[s] = "install" /\ Returns(s) /\ ~result'[s].success
         /\ PluginRow(user_id[s]) \in plugin
         /\ DirIntact(user_id[s]))
            => fs'[user_id[s]] = fs[user_id[s]]]_vars

\* C21: a step of install, delete or status for user U leaves, for every
\* other user V, the committed plugin rows, the committed module rows and
\* the plugin directory of V as they were, and puts no row of V among the
\* pending work of its session.
C21_OtherUsersUntouched ==
    [][\A s \in Sessions :
        (pc'[s] # pc[s] /\ pc[s] \notin {"idle", "done"})
            => \A v \in Users \ {user_id[s]} :
                /\ PluginRows(v)' = PluginRows(v)
                /\ ModuleRows(v)' = ModuleRows(v)
                /\ fs'[v] = fs[v]
                /\ \A r \in tx'[s].ins_plugin \cup tx'[s].del_plugin
                           \cup tx'[s].ins_module \cup tx'[s].del_module :
                        r.user_id # v]_vars

\* C21 witness: a delete for U has returned success while another user V
\* is installed, rows and directory
C21_Witness ==
    \E s \in Sessions, v \in Users :
        /\ pc[s] = "done" /\ op[s] = "delete" /\ result[s].success
        /\ v # user_id[s]
        /\ PluginRow(v) \in plugin
        /\ Cardinality(ModuleRows(v)) = ExpectedModules
        /\ DirIntact(v)

\* C22: with every store and filesystem call succeeding, an install returns
\* success only when package.json is at the source location.  When it is
\* not, the copy step succeeds all the same (install goes on to the
\* inserts), and the validation step returns 'Missing required files' with
\* the session rolled back, U's directory removed, the committed tables
\* unchanged and no commit ever issued by the call.
C22_NeedsPackageJson ==
    [][\A s \in Sessions :
        LET u == user_id[s] IN
        op[s] = "install" =>
            /\ (Returns(s) /\ result'[s].success) => "package.json" \in source_entries
            /\ "package.json" \notin source_entries =>
                /\ (pc[s] = "copy" /\ pc'[s] # pc[s])
                    => /\ pc'[s] = "insert_plugin"
                       /\ "plugin_metadata.json" \in fs'[u].entries
                       /\ "package.json" \notin fs'[u].entries
                /\ (pc[s] = "validate" /\ pc'[s] # pc[s])
                    => /\ pc'[s] = "done"
                       /\ result'[s] = Failure("Missing required files")
                       /\ tx'[s] = NoTx
                       /\ ~fs'[u].exists
                       /\ plugin' = plugin /\ module' = module
                /\ \A i \in 1..Len(calls'[s]) : calls'[s][i] # "commit"]_vars

\* C22 witness: without package.json at the source an install has inserted
\* its rows and has returned from the failed validation
C22_Witness ==
    \E s \in Sessions :
        /\ "package.json" \notin source_entries
        /\ pc[s] = "done" /\ op[s] = "install"
        /\ result[s].error = "Missing required files"
        /\ \E i \in 1..Len(calls[s]) : calls[s][i] = "insert_module"
        /\ calls[s][Len(calls[s])] = "rmtree"
        /\ fs[user_id[s]] = NoDir
        /\ PluginRows(user_id[s]) = {}

\* C23: a status(U) that has ended has returned one of not_installed,
\* healthy, files_missing, modules_corrupted and error, never 'unknown',
\* whatever the plugin record, the directory and the module rows are and
\* whichever lookup or probe failed; and the classification yields
\* 'unknown' for no combination of directory presence and module state.
C23_StatusNeverUnknown ==
    /\ \A s \in Sessions :
        (pc[s] = "done" /\ op[s] = "status")
            => /\ result[s].kind = "return"
               /\ result[s].status \in {"not_installed", "healthy", "files_missing",
                                        "modules_corrupted", "error"}
    /\ \A files \in BOOLEAN, all_loaded \in BOOLEAN :
        Classify(files, all_loaded) # "unknown"

\* C23 witness: status(U) has returned for a plugin record whose directory
\* and whose module rows are both gone
C23_Witness ==
    \E s \in Sessions :
        /\ pc[s] = "done" /\ op[s] = "status"
        /\ result[s].exists
        /\ ~result[s].files_exist
        /\ result[s].expected_count = ExpectedModules
        /\ result[s].actual_count = 0
        /\ result[s].status = "files_missing"
====
